---- MODULE Spec2Model ----
(***************************************************************************)
(* udp_logger: a `log::Log` adaptor that sends every enabled log record as *)
(* one UDP datagram, either inline (UdpWriter) or through a mutex-guarded  *)
(* VecDeque drained by a background thread (UdpBufferedWriter).            *)
(*                                                                         *)
(* Two specifications share the variables and the logging actions:         *)
(*   Spec      a UdpLogger built by UdpLogger::new / new_buffered followed *)
(*             by set_level, used by NumProducers threads through          *)
(*             Log::log, together with the drain thread;                   *)
(*   SpecInit  the process-wide registration done by UdpLoggerBuilder and  *)
(*             logging through the `log` macros afterwards.                *)
(***************************************************************************)
EXTENDS Integers, Sequences, FiniteSets, TLC

\* ------------------------------------------------------------------ bounds
NumProducers == 2
MaxEvents == 3
MaxInitCalls == 2

Producers == 1..NumProducers

\* ------------------------------------------------------------ value domains
\* log::Level in declaration order (Error is the smallest, Trace the largest);
\* the strings are what `{}` prints for a Level.
LevelNames == <<"ERROR", "WARN", "INFO", "DEBUG", "TRACE">>
Levels == {LevelNames[i] : i \in 1..Len(LevelNames)}

\* Position of a Level (or of LevelFilter::Off, which is below every Level).
Rank(level) ==
    IF level = "OFF" THEN 0
    ELSE CHOOSE i \in 1..Len(LevelNames) : LevelNames[i] = level

\* The levels of the events the producers log
EventLevels == {"ERROR", "INFO", "DEBUG"}

\* record.args() of the events the producers log
Texts == {"hello"}

\* impl ToSocketAddrs values handed to the constructors: one that resolves to
\* one address, one whose resolution fails, one that resolves to no address.
Dests == {"127.0.0.1:1999", "no.such.host:1999", "[]"}

NoLogger == [writer |-> "none", level |-> "OFF"]
NoMsg == <<>>

VARIABLES
    logger,      \* the UdpLogger in use: [writer, level]
    registered,  \* log's global logger slot holds `logger`
    registeredBy,\* the builder function whose logger was registered
    maxLevel,    \* log::max_level()
    initResult,  \* outcome of the latest builder call
    nInit,       \* number of builder calls made
    threads,     \* number of drain threads spawned so far
    messages,    \* Arc<Mutex<VecDeque<String>>> contents
    lock,        \* owner of the mutex: "free", "worker" or "producer"
    wpc,         \* position of the drain thread
    wmsg,        \* the message the drain thread popped
    stderr,      \* number of "Error sending message" lines printed
    pc,          \* position of each producer thread
    pmsg,        \* the String a producer handed to Writer::push
    pushRets,    \* the Writer::push calls that returned: [message, result]
    logRets,     \* the values the Log::log calls returned, in order
    calls,       \* levels of the records passed to UdpLogger::log, in order
    pushCalls,   \* the Strings passed to Writer::push, in call order
    enq,         \* the Strings appended to the VecDeque, in order
    sent,        \* the send_to calls that returned, in order
    built,       \* the constructor call behind `logger`: [writer, result]
    order,       \* the drain thread's first lock and first completed sleep, in order
    flushed      \* a Log::flush call has returned

vars == <<logger, registered, registeredBy, maxLevel, initResult, nInit,
          threads, messages, lock, wpc, wmsg, stderr, pc, pmsg, pushRets,
          logRets, calls, pushCalls, enq, sent, built, order, flushed>>

builderVars == <<registered, registeredBy, maxLevel, initResult, nInit>>
workerVars == <<wpc, wmsg, stderr>>

\* --------------------------------------------------------------- construction
\* ToSocketAddrs::to_socket_addrs
to_socket_addrs(dest) ==
    CASE dest = "127.0.0.1:1999" -> [ok |-> TRUE, addrs |-> <<"127.0.0.1:1999">>]
      [] dest = "[]" -> [ok |-> TRUE, addrs |-> <<>>]
      [] OTHER -> [ok |-> FALSE, addrs |-> <<>>]

\* UdpWriter::new: resolve, take the first address, bind 0.0.0.0:0
UdpWriter_new(dest, bindOk) ==
    LET r == to_socket_addrs(dest) IN
    IF ~r.ok THEN [result |-> "Err(resolve)", spawned |-> FALSE]
    ELSE IF r.addrs = <<>> THEN [result |-> "Err(AddrNotAvailable)", spawned |-> FALSE]
    ELSE IF ~bindOk THEN [result |-> "Err(bind)", spawned |-> FALSE]
    ELSE [result |-> "Ok", spawned |-> FALSE]

\* Faulty variants of UdpBufferedWriter::new: one that never spawns the drain
\* thread, and one that spawns it before the socket is bound.
UdpBufferedWriter_new_nospawn(dest, bindOk) ==
    LET r == to_socket_addrs(dest) IN
    IF ~r.ok THEN [result |-> "Err(resolve)", spawned |-> FALSE]
    ELSE IF r.addrs = <<>> THEN [result |-> "Err(AddrNotAvailable)", spawned |-> FALSE]
    ELSE IF ~bindOk THEN [result |-> "Err(bind)", spawned |-> FALSE]
    ELSE [result |-> "Ok", spawned |-> FALSE]
UdpBufferedWriter_new_spawn_early(dest, bindOk) ==
    LET r == to_socket_addrs(dest) IN
    IF ~r.ok THEN [result |-> "Err(resolve)", spawned |-> FALSE]
    ELSE IF r.addrs = <<>> THEN [result |-> "Err(AddrNotAvailable)", spawned |-> FALSE]
    ELSE IF ~bindOk THEN [result |-> "Err(bind)", spawned |-> TRUE]
    ELSE [result |-> "Ok", spawned |-> TRUE]

\* UdpBufferedWriter::new: resolve, take the first address, bind, then spawn
\* the drain thread
UdpBufferedWriter_new(dest, bindOk) ==
    LET r == to_socket_addrs(dest) IN
    IF ~r.ok THEN [result |-> "Err(resolve)", spawned |-> FALSE]
    ELSE IF r.addrs = <<>> THEN [result |-> "Err(AddrNotAvailable)", spawned |-> FALSE]
    ELSE IF ~bindOk THEN [result |-> "Err(bind)", spawned |-> FALSE]
    ELSE [result |-> "Ok", spawned |-> TRUE]

\* UdpLogger::new
UdpLogger_new(dest, bindOk) ==
    LET w == UdpWriter_new(dest, bindOk) IN
    [result |-> w.result, spawned |-> w.spawned,
     writer |-> "UdpWriter", level |-> "INFO"]

\* UdpLogger::new_buffered
UdpLogger_new_buffered(dest, bindOk) ==
    LET w == UdpBufferedWriter_new(dest, bindOk) IN
    [result |-> w.result, spawned |-> w.spawned,
     writer |-> "UdpBufferedWriter", level |-> "INFO"]

\* UdpLogger::set_level
set_level(lg, level) == [lg EXCEPT !.level = level]

\* Faulty variant of Constructed: the drain thread begins with its sleep.
Constructed_sleep_first(c) ==
    /\ logger = IF c.result = "Ok" THEN [writer |-> c.writer, level |-> c.level]
                ELSE NoLogger
    /\ threads = IF c.spawned THEN 1 ELSE 0
    /\ wpc = IF c.spawned THEN "sleep" ELSE "none"
    /\ built = [writer |-> c.writer, result |-> c.result]

\* The state a constructor call `c` leaves behind for the threads that use the
\* logger: the logger value, and the drain thread at the top of its loop.
Constructed(c) ==
    /\ logger = IF c.result = "Ok" THEN [writer |-> c.writer, level |-> c.level]
                ELSE NoLogger
    /\ threads = IF c.spawned THEN 1 ELSE 0
    /\ wpc = IF c.spawned THEN "lock" ELSE "none"
    /\ built = [writer |-> c.writer, result |-> c.result]

Idle ==
    /\ messages = <<>>
    /\ lock = "free"
    /\ wmsg = NoMsg
    /\ stderr = 0
    /\ pc = [t \in Producers |-> "idle"]
    /\ pmsg = [t \in Producers |-> NoMsg]
    /\ pushRets = <<>>
    /\ logRets = <<>>
    /\ calls = <<>>
    /\ pushCalls = <<>>
    /\ enq = <<>>
    /\ sent = <<>>
    /\ order = <<>>
    /\ flushed = FALSE

Unregistered ==
    /\ registered = FALSE
    /\ registeredBy = "none"
    /\ maxLevel = "OFF"
    /\ initResult = "none"
    /\ nInit = 0

\* Spec starts after `UdpLogger::new(dest)` or `UdpLogger::new_buffered(dest)`
\* and `set_level(level)` have run.
Init ==
    /\ \E dest \in Dests, bindOk \in BOOLEAN, level \in Levels :
          \/ Constructed(set_level(UdpLogger_new(dest, bindOk), level))
          \/ Constructed(set_level(UdpLogger_new_buffered(dest, bindOk), level))
    /\ Idle
    /\ Unregistered

\* ------------------------------------------------------------------- logging
\* Faulty variant of enabled: the comparison turned round.
enabled_inverted(lg, level) == Rank(level) >= Rank(lg.level)

\* Log::enabled
enabled(lg, level) == Rank(level) <= Rank(lg.level)

\* format!("{} [{}] {}\n", record.level(), Utc::now().to_rfc3339(), record.args());
\* the clock is the number of records logged so far.
format(level, now, args) == <<level, "[", now, "]", args, "\n">>

\* Log::log up to the call of Writer::push (the whole call when not enabled)
Log(t, level, text) ==
    /\ pc[t] = "idle"
    /\ logger.writer # "none"
    /\ Len(calls) < MaxEvents
    /\ calls' = Append(calls, level)
    /\ IF enabled(logger, level)
       THEN LET message == format(level, Len(calls) + 1, text) IN
            /\ pmsg' = [pmsg EXCEPT ![t] = message]
            /\ pushCalls' = Append(pushCalls, message)
            /\ pc' = [pc EXCEPT ![t] =
                        IF logger.writer = "UdpBufferedWriter" THEN "lock"
                        ELSE "send_to"]
            /\ UNCHANGED logRets
       ELSE /\ logRets' = Append(logRets, "()")
            /\ UNCHANGED <<pmsg, pushCalls, pc>>
    /\ UNCHANGED <<logger, built, flushed, order, builderVars, threads, messages, lock, workerVars,
                   pushRets, enq, sent>>

\* Faulty variants of push_back: insertion at the front, and an append that
\* writes over the last slot (two appends that saw the same length).
push_front(q, m) == <<m>> \o q
push_back_lost(q, m) == IF q = <<>> THEN <<m>> ELSE [q EXCEPT ![Len(q)] = m]

\* VecDeque::push_back
push_back(q, m) == Append(q, m)

\* Faulty variant of P_Lock: the producer enters without waiting for the mutex.
P_Lock_unguarded(t) ==
    /\ pc[t] = "lock"
    /\ lock' = "producer"
    /\ pc' = [pc EXCEPT ![t] = "push_back"]
    /\ UNCHANGED <<logger, built, flushed, order, builderVars, threads, messages,
                   workerVars, pmsg, pushRets, logRets, calls, pushCalls, enq,
                   sent>>

\* UdpBufferedWriter::push: self.messages.lock().unwrap()
P_Lock(t) ==
    /\ pc[t] = "lock"
    /\ lock = "free"
    /\ lock' = "producer"
    /\ pc' = [pc EXCEPT ![t] = "push_back"]
    /\ UNCHANGED <<logger, built, flushed, order, builderVars, threads, messages, workerVars, pmsg,
                   pushRets, logRets, calls, pushCalls, enq, sent>>

\* Faulty variant of P_PushBack: push reports an earlier send failure.
P_PushBack_surfacing(t) ==
    /\ pc[t] = "push_back"
    /\ messages' = push_back(messages, pmsg[t])
    /\ enq' = Append(enq, pmsg[t])
    /\ lock' = "free"
    /\ pushRets' = Append(pushRets, [message |-> pmsg[t],
                                      result |-> IF stderr > 0 THEN "Err" ELSE "Ok"])
    /\ logRets' = Append(logRets, "()")
    /\ pmsg' = [pmsg EXCEPT ![t] = NoMsg]
    /\ pc' = [pc EXCEPT ![t] = "idle"]
    /\ UNCHANGED <<logger, built, flushed, order, builderVars, threads, workerVars, calls, pushCalls,
                   sent>>

\* UdpBufferedWriter::push: push_back, drop the guard, Ok(()); log discards
\* the result and returns
P_PushBack(t) ==
    /\ pc[t] = "push_back"
    /\ messages' = push_back(messages, pmsg[t])
    /\ enq' = Append(enq, pmsg[t])
    /\ lock' = "free"
    /\ pushRets' = Append(pushRets, [message |-> pmsg[t], result |-> "Ok"])
    /\ logRets' = Append(logRets, "()")
    /\ pmsg' = [pmsg EXCEPT ![t] = NoMsg]
    /\ pc' = [pc EXCEPT ![t] = "idle"]
    /\ UNCHANGED <<logger, built, flushed, order, builderVars, threads, workerVars, calls, pushCalls,
                   sent>>

\* Faulty variant of P_SendTo: push answers Ok whatever send_to returned.
P_SendTo_swallow(t, ok) ==
    /\ pc[t] = "send_to"
    /\ sent' = Append(sent, [payload |-> pmsg[t], ok |-> ok, by |-> "caller"])
    /\ pushRets' = Append(pushRets, [message |-> pmsg[t], result |-> "Ok"])
    /\ logRets' = Append(logRets, "()")
    /\ pmsg' = [pmsg EXCEPT ![t] = NoMsg]
    /\ pc' = [pc EXCEPT ![t] = "idle"]
    /\ UNCHANGED <<logger, built, flushed, order, builderVars, threads, messages,
                   lock, workerVars, calls, pushCalls, enq>>

\* UdpWriter::push: send_to returns (ok or error) and push returns its result;
\* log discards the result and returns
P_SendTo(t, ok) ==
    /\ pc[t] = "send_to"
    /\ sent' = Append(sent, [payload |-> pmsg[t], ok |-> ok, by |-> "caller"])
    /\ pushRets' = Append(pushRets, [message |-> pmsg[t],
                                      result |-> IF ok THEN "Ok" ELSE "Err"])
    /\ logRets' = Append(logRets, "()")
    /\ pmsg' = [pmsg EXCEPT ![t] = NoMsg]
    /\ pc' = [pc EXCEPT ![t] = "idle"]
    /\ UNCHANGED <<logger, built, flushed, order, builderVars, threads, messages, lock, workerVars,
                   calls, pushCalls, enq>>

\* --------------------------------------------------------------- drain thread
\* `o` with `what` recorded, when it is the first of its kind
First(o, what) ==
    IF \E i \in 1..Len(o) : o[i] = what THEN o ELSE Append(o, what)

\* if let Ok(mut messages) = m_clone.lock()
W_Lock ==
    /\ wpc = "lock"
    /\ lock = "free"
    /\ lock' = "worker"
    /\ wpc' = "pop_front"
    /\ order' = First(order, "drain")
    /\ UNCHANGED <<logger, built, flushed, builderVars, threads, messages, wmsg, stderr, pc,
                   pmsg, pushRets, logRets, calls, pushCalls, enq, sent>>

\* The concatenation of a sequence of Strings
RECURSIVE Concat(_)
Concat(q) == IF q = <<>> THEN <<>> ELSE Head(q) \o Concat(Tail(q))

\* Faulty variant of W_PopFront: the whole queue leaves as one datagram.
W_PopFront_coalesce ==
    /\ wpc = "pop_front"
    /\ IF messages # <<>>
       THEN /\ wmsg' = Concat(messages)
            /\ messages' = <<>>
            /\ wpc' = "send_to"
            /\ UNCHANGED lock
       ELSE /\ lock' = "free"
            /\ wpc' = "sleep"
            /\ UNCHANGED <<wmsg, messages>>
    /\ UNCHANGED <<logger, built, flushed, order, builderVars, threads, stderr, pc, pmsg, pushRets,
                   logRets, calls, pushCalls, enq, sent>>

\* Faulty variants of W_PopFront: an empty queue is reported as an error, and
\* the guard is kept over the sleep.
W_PopFront_reports_empty ==
    /\ wpc = "pop_front"
    /\ IF messages # <<>>
       THEN /\ wmsg' = Head(messages)
            /\ messages' = Tail(messages)
            /\ wpc' = "send_to"
            /\ UNCHANGED <<lock, stderr>>
       ELSE /\ lock' = "free"
            /\ wpc' = "sleep"
            /\ stderr' = stderr + 1
            /\ UNCHANGED <<wmsg, messages>>
    /\ UNCHANGED <<logger, built, flushed, order, builderVars, threads, pc, pmsg,
                   pushRets, logRets, calls, pushCalls, enq, sent>>
W_PopFront_keeps_lock ==
    /\ wpc = "pop_front"
    /\ IF messages # <<>>
       THEN /\ wmsg' = Head(messages)
            /\ messages' = Tail(messages)
            /\ wpc' = "send_to"
       ELSE /\ wpc' = "sleep"
            /\ UNCHANGED <<wmsg, messages>>
    /\ UNCHANGED <<logger, built, flushed, order, builderVars, threads, lock,
                   stderr, pc, pmsg, pushRets, logRets, calls, pushCalls, enq,
                   sent>>

\* while let Some(message) = messages.pop_front(); on None the guard is
\* dropped and the thread goes to sleep
W_PopFront ==
    /\ wpc = "pop_front"
    /\ IF messages # <<>>
       THEN /\ wmsg' = Head(messages)
            /\ messages' = Tail(messages)
            /\ wpc' = "send_to"
            /\ UNCHANGED lock
       ELSE /\ lock' = "free"
            /\ wpc' = "sleep"
            /\ UNCHANGED <<wmsg, messages>>
    /\ UNCHANGED <<logger, built, flushed, order, builderVars, threads, stderr, pc, pmsg, pushRets,
                   logRets, calls, pushCalls, enq, sent>>

\* Faulty variant of W_SendTo: a send error leaves the while loop.
W_SendTo_abort(ok) ==
    /\ wpc = "send_to"
    /\ sent' = Append(sent, [payload |-> wmsg, ok |-> ok, by |-> "worker"])
    /\ stderr' = IF ok THEN stderr ELSE stderr + 1
    /\ wmsg' = NoMsg
    /\ wpc' = IF ok THEN "pop_front" ELSE "sleep"
    /\ lock' = IF ok THEN lock ELSE "free"
    /\ UNCHANGED <<logger, built, flushed, order, builderVars, threads, messages, pc, pmsg,
                   pushRets, logRets, calls, pushCalls, enq>>

\* Faulty variant of W_SendTo: a message whose send failed goes back to the
\* queue for another attempt.
W_SendTo_requeue(ok) ==
    /\ wpc = "send_to"
    /\ sent' = Append(sent, [payload |-> wmsg, ok |-> ok, by |-> "worker"])
    /\ stderr' = IF ok THEN stderr ELSE stderr + 1
    /\ messages' = IF ok THEN messages ELSE Append(messages, wmsg)
    /\ wmsg' = NoMsg
    /\ wpc' = "pop_front"
    /\ UNCHANGED <<logger, built, flushed, order, builderVars, threads, lock, pc,
                   pmsg, pushRets, logRets, calls, pushCalls, enq>>

\* out.send_to(..) returns; an error is printed to stderr and dropped
W_SendTo(ok) ==
    /\ wpc = "send_to"
    /\ sent' = Append(sent, [payload |-> wmsg, ok |-> ok, by |-> "worker"])
    /\ stderr' = IF ok THEN stderr ELSE stderr + 1
    /\ wmsg' = NoMsg
    /\ wpc' = "pop_front"
    /\ UNCHANGED <<logger, built, flushed, order, builderVars, threads, messages, lock, pc, pmsg,
                   pushRets, logRets, calls, pushCalls, enq>>

\* Faulty variant of W_Wake: the thread body has no `loop` and returns after
\* its first pass.
W_Wake_exit ==
    /\ wpc = "sleep"
    /\ wpc' = "done"
    /\ order' = First(order, "sleep")
    /\ UNCHANGED <<logger, built, flushed, builderVars, threads, messages, lock,
                   wmsg, stderr, pc, pmsg, pushRets, logRets, calls, pushCalls,
                   enq, sent>>

\* std::thread::sleep(50 ms) returns
W_Wake ==
    /\ wpc = "sleep"
    /\ wpc' = "lock"
    /\ order' = First(order, "sleep")
    /\ UNCHANGED <<logger, built, flushed, builderVars, threads, messages, lock, wmsg, stderr,
                   pc, pmsg, pushRets, logRets, calls, pushCalls, enq, sent>>

LogCall == \E t \in Producers, level \in EventLevels, text \in Texts : Log(t, level, text)
ProducerLock == \E t \in Producers : P_Lock(t)
ProducerPushBack == \E t \in Producers : P_PushBack(t)
ProducerSendTo == \E t \in Producers, ok \in BOOLEAN : P_SendTo(t, ok)
WorkerSendTo == \E ok \in BOOLEAN : W_SendTo(ok)

Next ==
    \/ LogCall
    \/ ProducerLock
    \/ ProducerPushBack
    \/ ProducerSendTo
    \/ W_Lock
    \/ W_PopFront
    \/ WorkerSendTo
    \/ W_Wake

Spec == Init /\ [][Next]_vars

\* Scheduling: every thread keeps running (a step that stays possible is
\* taken: the sleep ends, send_to returns, the critical section is left), and
\* the mutex is handed over fairly: a thread that finds the lock free again
\* and again gets it.
Fairness ==
    /\ SF_vars(W_Lock)
    /\ WF_vars(W_PopFront)
    /\ WF_vars(WorkerSendTo)
    /\ WF_vars(W_Wake)
    /\ \A t \in Producers : SF_vars(P_Lock(t)) /\ WF_vars(P_PushBack(t))

FairSpec == Init /\ [][Next]_vars /\ Fairness

\* --------------------------------------------------------------------- flush
\* Faulty variant of Flush: flush returns only once the queue has been sent.
Flush_waits(t) ==
    /\ pc[t] = "idle"
    /\ logger.writer # "none"
    /\ messages = <<>>
    /\ wpc # "send_to"
    /\ flushed' = TRUE
    /\ UNCHANGED <<logger, built, order, builderVars, threads, messages, lock,
                   workerVars, pc, pmsg, pushRets, logRets, calls, pushCalls,
                   enq, sent>>

\* Log::flush: `fn flush(&self) {}`
Flush(t) ==
    /\ pc[t] = "idle"
    /\ logger.writer # "none"
    /\ flushed' = TRUE
    /\ UNCHANGED <<logger, built, order, builderVars, threads, messages, lock,
                   workerVars, pc, pmsg, pushRets, logRets, calls, pushCalls,
                   enq, sent>>

FlushCall == \E t \in Producers : Flush(t)

\* Spec with calls of flush among the producers' steps
NextFlush ==
    \/ LogCall
    \/ FlushCall
    \/ ProducerLock
    \/ ProducerPushBack
    \/ ProducerSendTo
    \/ W_Lock
    \/ W_PopFront
    \/ WorkerSendTo
    \/ W_Wake

SpecFlush == Init /\ [][NextFlush]_vars

\* ------------------------------------------------------------ UdpLoggerBuilder
\* SpecInit starts at process start: nothing constructed, no logger registered.
InitBuilder ==
    /\ logger = NoLogger
    /\ threads = 0
    /\ wpc = "none"
    /\ built = [writer |-> "none", result |-> "none"]
    /\ Idle
    /\ Unregistered

\* UdpLoggerBuilder::init: log::set_boxed_logger succeeds only while the global
\* slot is empty, and only then is log::set_max_level called; otherwise the
\* boxed logger is dropped and SetLoggerError returned.
init(lg, by) ==
    IF ~registered
    THEN /\ registered' = TRUE
         /\ registeredBy' = by
         /\ logger' = [writer |-> lg.writer, level |-> lg.level]
         /\ maxLevel' = lg.level
         /\ wpc' = IF lg.spawned THEN "lock" ELSE wpc
         /\ initResult' = "Ok"
    ELSE /\ initResult' = "Err(SetLoggerError)"
         /\ UNCHANGED <<registered, registeredBy, logger, maxLevel, wpc>>

\* UdpLoggerBuilder::try_init: `UdpLogger::new(destination).unwrap()` panics on
\* a construction error; the panic unwinds the calling thread, the other
\* threads of the process go on.
TryInit(dest, bindOk, level) ==
    /\ nInit < MaxInitCalls
    /\ nInit' = nInit + 1
    /\ LET r == UdpLogger_new(dest, bindOk) IN
       /\ threads' = IF r.spawned THEN threads + 1 ELSE threads
       /\ IF r.result # "Ok"
          THEN /\ initResult' = "Panic"
               /\ UNCHANGED <<registered, registeredBy, logger, maxLevel, wpc>>
          ELSE init(set_level(r, level), "try_init")
    /\ UNCHANGED <<built, flushed, order, messages, lock, wmsg, stderr, pc, pmsg,
                   pushRets, logRets, calls, pushCalls, enq, sent>>

\* UdpLoggerBuilder::try_buffered_init: `UdpLogger::new(destination)?` returns
\* a construction error to the caller.
TryBufferedInit(dest, bindOk, level) ==
    /\ nInit < MaxInitCalls
    /\ nInit' = nInit + 1
    /\ LET r == UdpLogger_new(dest, bindOk) IN
       /\ threads' = IF r.spawned THEN threads + 1 ELSE threads
       /\ IF r.result # "Ok"
          THEN /\ initResult' = r.result
               /\ UNCHANGED <<registered, registeredBy, logger, maxLevel, wpc>>
          ELSE init(set_level(r, level), "try_buffered_init")
    /\ UNCHANGED <<built, flushed, order, messages, lock, wmsg, stderr, pc, pmsg,
                   pushRets, logRets, calls, pushCalls, enq, sent>>

\* info!(..): the record reaches the registered logger's `log` when its level
\* passes log::max_level()
MacroLog(t, level, text) ==
    /\ registered
    /\ Rank(level) <= Rank(maxLevel)
    /\ Log(t, level, text)

TryInitCall ==
    \E dest \in Dests, bindOk \in BOOLEAN, level \in Levels :
        TryInit(dest, bindOk, level)
TryBufferedInitCall ==
    \E dest \in Dests, bindOk \in BOOLEAN, level \in Levels :
        TryBufferedInit(dest, bindOk, level)
MacroLogCall ==
    \E t \in Producers, text \in Texts : MacroLog(t, "INFO", text)

\* Both builder functions construct their logger with UdpLogger::new, so the
\* registered logger's writer is a UdpWriter and the steps of the queue and of
\* the drain thread have no part in this specification.
NextBuilder ==
    \/ TryInitCall
    \/ TryBufferedInitCall
    \/ MacroLogCall
    \/ ProducerSendTo

SpecInit == InitBuilder /\ [][NextBuilder]_vars

\* ---------------------------------------------------------------- properties
Buffered == logger.writer = "UdpBufferedWriter"
Payloads(s) == [i \in 1..Len(s) |-> s[i].payload]
WorkerSent == SelectSeq(sent, LAMBDA a : a.by = "worker")
InFlight == IF wpc = "send_to" THEN <<wmsg>> ELSE <<>>
\* every message that left the callers' hands, oldest first
Attempted == Payloads(WorkerSent) \o InFlight

\* C1: the drain thread's send attempts, in order, followed by what is still
\* queued, are exactly the messages in the order they were appended to the
\* queue; no message is sent before one enqueued earlier.
C1_FIFO == Attempted \o messages = enq

\* C1 witness: two producers raced (the second push call was enqueued first),
\* and the drain thread has sent two messages with a third still to come.
C1_Witness ==
    /\ Buffered
    /\ Len(WorkerSent) >= 2
    /\ Len(enq) > Len(WorkerSent)
    /\ enq[1] = pushCalls[2]

\* C2: once every push call has returned, each pushed message is exactly once
\* in the queue or among the messages handed to a send attempt, so their number
\* is the number of push calls (and the queue holds them all when nothing was
\* drained).
C2_NoLostUpdates ==
    (Buffered /\ \A t \in Producers : pc[t] = "idle") =>
        LET all == Attempted \o messages IN
        /\ Len(all) = Len(pushCalls)
        /\ \A i \in 1..Len(pushCalls) :
              Cardinality({j \in 1..Len(all) : all[j] = pushCalls[i]}) = 1

\* C2 witness: all pushes returned, none drained, the pushes of two threads
\* interleaved, and the queue holds every message.
C2_Witness ==
    /\ Buffered
    /\ \A t \in Producers : pc[t] = "idle"
    /\ Len(pushCalls) = MaxEvents
    /\ Len(messages) = MaxEvents
    /\ messages[1] = pushCalls[2]

\* C3: no producer waits for the queue lock while the drain thread is inside
\* a network send call.
C3_SendNeverBlocksProducers ==
    ~(wpc = "send_to" /\ \E t \in Producers : pc[t] = "lock" /\ lock # "free")

\* C4: a failed send puts the drain thread back at the head of its while loop
\* with the lock held and the rest of the batch untouched; the batch ends only
\* on an empty queue; and the thread never leaves its loop.
C4_FailureIsolation ==
    /\ [][(wpc = "send_to" /\ Len(sent') > Len(sent) /\ ~sent'[Len(sent')].ok)
            => (wpc' = "pop_front" /\ lock' = "worker" /\ messages' = messages)]_vars
    /\ [][(wpc \in {"pop_front", "send_to"} /\ wpc' \notin {"pop_front", "send_to"})
            => (messages = <<>> /\ wpc = "pop_front" /\ wpc' = "sleep")]_vars
    /\ [][wpc # "none" => wpc' \in {"lock", "pop_front", "send_to", "sleep"}]_vars

\* C4 witness: the second send failed and the drain thread, still holding the
\* lock, is sending the third message.
C4_Witness ==
    /\ Len(WorkerSent) = 2
    /\ ~WorkerSent[2].ok
    /\ wpc = "send_to"
    /\ wmsg = enq[3]

\* C5: every push on the buffered path that returned, returned Ok, and its
\* message was enqueued; every log call returned the unit value.
C5_PushAlwaysOk ==
    /\ Buffered => \A i \in 1..Len(pushRets) : pushRets[i].result = "Ok"
    /\ Buffered => [i \in 1..Len(pushRets) |-> pushRets[i].message] = enq
    /\ \A i \in 1..Len(logRets) : logRets[i] = "()"

\* C5 witness: a send failed, and a push made after that failure returned Ok,
\* as did the push of the message whose send failed.
C5_Witness ==
    /\ Buffered
    /\ stderr > 0
    /\ Len(pushRets) = MaxEvents
    /\ Len(sent) < Len(pushRets)
    /\ \E i \in 1..Len(sent) : ~sent[i].ok

\* C6: Writer::push is called for exactly the log calls whose level is at
\* least as severe as the threshold (level <= threshold), in order, and nothing
\* is queued, in flight or sent that was not passed to push.
C6_LevelFiltering ==
    LET en == {i \in 1..Len(calls) : Rank(calls[i]) <= Rank(logger.level)}
        pushedSet == {pushCalls[k] : k \in 1..Len(pushCalls)}
    IN
    /\ Len(pushCalls) = Cardinality(en)
    /\ \A k \in 1..Len(pushCalls) :
          /\ pushCalls[k][3] \in en
          /\ pushCalls[k][1] = calls[pushCalls[k][3]]
    /\ \A i \in 1..Len(enq) : enq[i] \in pushedSet
    /\ \A i \in 1..Len(messages) : messages[i] \in pushedSet
    /\ \A i \in 1..Len(sent) : sent[i].payload \in pushedSet
    /\ \A t \in Producers : pmsg[t] # NoMsg => pmsg[t] \in pushedSet

\* C6 witness: threshold Info; a Debug event was logged and filtered, an Info
\* event was logged and sent.
C6_Witness ==
    /\ logger.level = "INFO"
    /\ \E i \in 1..Len(calls) : calls[i] = "DEBUG"
    /\ \E i \in 1..Len(sent) : sent[i].payload[1] = "INFO"
    /\ \A t \in Producers : pc[t] = "idle"
    /\ Len(sent) = Len(pushCalls)

\* C7: once try_buffered_init has registered its logger, no logging thread is
\* ever inside a network send and no datagram is sent by the thread that
\* logged: events are enqueued and sent by the drain thread.
C7_BufferedInitNeverSendsInline ==
    registeredBy = "try_buffered_init" =>
        /\ \A t \in Producers : pc[t] # "send_to"
        /\ \A i \in 1..Len(sent) : sent[i].by = "worker"

InitErrors == {"Err(resolve)", "Err(AddrNotAvailable)", "Err(bind)",
               "Err(SetLoggerError)"}

\* C8: a call of try_init or try_buffered_init whose address resolution or
\* socket bind fails returns an Err value (no panic) and registers no logger.
C8_InitErrorsAreValues ==
    [][\A dest \in Dests, bindOk \in BOOLEAN, level \in Levels :
          ((TryInit(dest, bindOk, level) \/ TryBufferedInit(dest, bindOk, level))
             /\ UdpWriter_new(dest, bindOk).result # "Ok")
          => (initResult' \in InitErrors /\ registered' = registered
              /\ logger' = logger)]_vars

\* C9: every initialization call made after a logger has been registered
\* returns an error and leaves the registered logger and the global max-level
\* filter as the first successful call set them.
C9_SingleRegistration ==
    [][(registered /\ nInit' = nInit + 1)
         => (initResult' \in InitErrors /\ registered' /\ logger' = logger
             /\ registeredBy' = registeredBy /\ maxLevel' = maxLevel)]_vars

\* C10: every datagram handed to send_to, sent or in flight, is the formatted
\* line of exactly one log call, and no log call's line is sent twice: queued
\* messages are never merged into one datagram nor split across datagrams.
C10_OneDatagramPerEvent ==
    LET lines == {format(calls[k], k, x) : k \in 1..Len(calls), x \in Texts}
        out == Payloads(sent) \o InFlight
    IN
    /\ \A i \in 1..Len(out) : out[i] \in lines
    /\ \A i, j \in 1..Len(out) : out[i] = out[j] => i = j
    /\ \A t \in Producers : pc[t] = "send_to" => pmsg[t] \in lines

\* C10 witness: the drain thread holds the lock with two messages already sent
\* and a third popped in the same state of the queue: several datagrams, one
\* per queued message.
C10_Witness ==
    /\ Buffered
    /\ Len(sent) = 2
    /\ wpc = "send_to"
    /\ Len(enq) = MaxEvents
    /\ sent[1].payload # sent[2].payload

Unbuffered == logger.writer = "UdpWriter"

\* C11: on the unbuffered writer the pushes that returned are, one for one
\* and in order, the send_to calls that returned, each made by the calling
\* thread, with Ok exactly for a successful send and the error otherwise; no
\* queue, lock or drain thread takes part.
C11_UnbufferedSynchronous ==
    Unbuffered =>
        /\ Len(pushRets) = Len(sent)
        /\ \A i \in 1..Len(sent) :
              /\ sent[i].by = "caller"
              /\ pushRets[i].message = sent[i].payload
              /\ pushRets[i].result = IF sent[i].ok THEN "Ok" ELSE "Err"
        /\ \A t \in Producers : pc[t] \in {"idle", "send_to"}
        /\ threads = 0 /\ wpc = "none"
        /\ messages = <<>> /\ enq = <<>> /\ lock = "free"

\* C11 witness: one push returned Ok after a successful send, another the
\* error of a failed send, while a third caller is still inside send_to.
C11_Witness ==
    /\ Unbuffered
    /\ \E i \in 1..Len(pushRets) : pushRets[i].result = "Ok"
    /\ \E i \in 1..Len(pushRets) : pushRets[i].result = "Err"
    /\ \E t \in Producers : pc[t] = "send_to"

\* C12: under fair scheduling the k-th message appended to the queue is
\* eventually handed to a send attempt by the drain thread, for every k, and
\* the drain thread comes back to its sleep again and again: its loop never
\* ends.
C12_EventualSend ==
    /\ \A k \in 1..MaxEvents : (Len(enq) >= k) ~> (Len(WorkerSent) >= k)
    /\ []<>(wpc \in {"none", "sleep"})

\* C12 witness: every message a producer enqueued, the last of them after
\* the drain thread's first sleep, has had its send attempt.
C12_Witness ==
    /\ Buffered
    /\ Len(enq) = MaxEvents
    /\ Len(WorkerSent) = MaxEvents
    /\ order = <<"drain", "sleep">>
    /\ wpc = "sleep"

\* C13: from the drain thread's lock acquisition to its release the queue
\* changes only by losing its head to the drain thread (so nothing is enqueued
\* between two removals and the removals are, in FIFO order, the messages
\* queued at acquisition), the lock stays with the drain thread while a message
\* is queued, and the queue is empty when the lock is released.
C13_AtomicDrain ==
    /\ [][lock = "worker" =>
            /\ enq' = enq
            /\ \/ messages' = messages
               \/ /\ messages # <<>>
                  /\ messages' = Tail(messages)
                  /\ wmsg' = Head(messages)
                  /\ wpc = "pop_front"]_vars
    /\ [][(lock = "worker" /\ lock' # "worker")
            => (messages = <<>> /\ messages' = <<>> /\ lock' = "free")]_vars
    /\ [][(wpc = "lock" /\ wpc' # "lock") => (lock = "free" /\ lock' = "worker")]_vars

\* C13 witness: the drain thread is sending the first message of a batch of at
\* least two while a producer waits with the next message for the lock.
C13_Witness ==
    /\ wpc = "send_to"
    /\ lock = "worker"
    /\ messages # <<>>
    /\ \E t \in Producers : pc[t] = "lock"

\* C14: no message occurs twice among the send attempts made, the message in
\* flight and the queue, so a message that had its attempt, failed or not, is
\* never queued or attempted again; and the queue receives a message only from
\* a push call: the appended messages are those of the pushes that returned.
C14_NoRetry ==
    Buffered =>
        LET all == Attempted \o messages IN
        /\ \A i, j \in 1..Len(all) : all[i] = all[j] => i = j
        /\ Len(enq) = Len(pushRets)
        /\ Len(all) = Len(pushRets)

\* C14 witness: a send failed, and afterwards the drain thread finished the
\* batch and a later one: the queue is empty and every message had one attempt.
C14_Witness ==
    /\ Buffered
    /\ Len(WorkerSent) = MaxEvents
    /\ ~WorkerSent[1].ok
    /\ messages = <<>>
    /\ wpc = "sleep"

\* C15 as stated: the drain thread's first sleep completes before its first
\* drain.
C15_SleepBeforeDrain == Len(order) >= 1 => order[1] = "sleep"

\* C15 amended: in every iteration the drain and its sends come first and the
\* sleep after them: the drain thread locks the queue for its first drain
\* before its first sleep, it sleeps only after a drain, and whatever it sent
\* before its first sleep completed it sent in that first drain.
C15_DrainBeforeSleep ==
    /\ Len(order) >= 1 => order[1] = "drain"
    /\ wpc = "sleep" => order # <<>>
    /\ (lock = "worker" \/ WorkerSent # <<>>) => order # <<>>

\* C15 witness: the drain thread has sent a datagram and no sleep has
\* completed yet.
C15_Witness ==
    /\ order = <<"drain">>
    /\ Len(WorkerSent) >= 1

\* C16: a UdpBufferedWriter whose construction succeeded has exactly one
\* drain thread, running its loop; a message leaves the queue only by the
\* drain thread's pop_front under the lock; and the construction of a
\* UdpWriter starts no thread.
C16_SingleConsumer ==
    /\ []((built.writer = "UdpBufferedWriter" /\ built.result = "Ok")
            => (threads = 1 /\ wpc \in {"lock", "pop_front", "send_to", "sleep"}))
    /\ [](built.writer = "UdpWriter" => (threads = 0 /\ wpc = "none"))
    /\ [][Len(messages') < Len(messages)
            => (wpc = "pop_front" /\ lock = "worker" /\ wpc' = "send_to"
                /\ pc' = pc)]_vars

\* C16 witness: messages of two producers were queued and the one drain
\* thread has removed them all.
C16_Witness ==
    /\ built = [writer |-> "UdpBufferedWriter", result |-> "Ok"]
    /\ threads = 1
    /\ Len(enq) = MaxEvents
    /\ messages = <<>>
    /\ wpc = "send_to"

\* C20: a call of UdpBufferedWriter::new that returned an error (resolution
\* error, no address, bind error) left no logger and no drain thread; a drain
\* thread exists only when the construction returned Ok.
C20_FailedConstructionStartsNothing ==
    /\ (built.writer = "UdpBufferedWriter" /\ built.result # "Ok")
          => (threads = 0 /\ wpc = "none" /\ logger = NoLogger)
    /\ (threads > 0 \/ wpc # "none")
          => (built.result = "Ok" /\ Buffered)

\* C20 witness: the bind failed in UdpBufferedWriter::new and nothing runs.
C20_Witness ==
    /\ built = [writer |-> "UdpBufferedWriter", result |-> "Err(bind)"]
    /\ threads = 0
    /\ wpc = "none"

\* C17: a flush call changes neither the queue nor anything else of the
\* logger, the writer or the drain thread and sends nothing; and a thread that
\* is not inside log can always complete a flush, whatever the queue holds and
\* wherever the drain thread is.
C17_FlushNoOp ==
    /\ [][flushed' # flushed =>
            UNCHANGED <<logger, messages, lock, wpc, wmsg, stderr, pc, pmsg,
                        pushRets, logRets, calls, pushCalls, enq, sent, threads>>]_vars
    /\ [](\A t \in Producers :
            (pc[t] = "idle" /\ logger.writer # "none" /\ ~flushed)
               => ENABLED (Flush(t) /\ flushed')) 

\* C17 witness: flush has returned and an enqueued message is still unsent
\* while the drain thread sleeps.
C17_Witness ==
    /\ flushed
    /\ Buffered
    /\ messages # <<>>
    /\ wpc = "sleep"

\* C18: the two steps of a drain cycle on an empty queue (taking the lock,
\* the pop_front that finds nothing) send nothing, print no error and leave the
\* queue empty; and however many cycles ran, the drain thread has made no more
\* send attempts than messages were enqueued and printed one error per failed
\* attempt, so cycles on an empty queue add nothing to one another.
C18_EmptyDrain ==
    /\ [][(wpc \in {"lock", "pop_front"} /\ messages = <<>> /\ wpc' # wpc)
            => /\ messages' = <<>>
               /\ UNCHANGED <<sent, stderr, wmsg, enq, pc, pushRets>>
               /\ wpc' = (IF wpc = "lock" THEN "pop_front" ELSE "sleep")
               /\ lock' = (IF wpc = "lock" THEN "worker" ELSE "free")]_vars
    /\ [](Len(WorkerSent) + Len(InFlight) <= Len(enq))
    /\ [](stderr = Len(SelectSeq(WorkerSent, LAMBDA a : ~a.ok)))

\* C18 witness: nothing was ever enqueued and the drain thread sleeps after
\* its second cycle on the empty queue, with nothing sent or printed.
C18_Witness ==
    /\ Buffered
    /\ order = <<"drain", "sleep">>
    /\ wpc = "sleep"
    /\ enq = <<>>
    /\ sent = <<>>
    /\ stderr = 0

\* C19: under fair scheduling and fair hand-over of the mutex, a drain cycle
\* always comes to its end and frees the lock, also with producers waiting to
\* push, and every producer that waits for the lock gets it and returns.
C19_DrainTerminates ==
    /\ (lock = "worker") ~> (lock = "free")
    /\ \A t \in Producers : (pc[t] = "lock") ~> (pc[t] = "idle")

\* C19 witness: every producer waits for the lock while the drain thread,
\* having sent a message of this batch, holds it.
C19_Witness ==
    /\ \A t \in Producers : pc[t] = "lock"
    /\ lock = "worker"
    /\ wpc = "pop_front"
    /\ WorkerSent # <<>>

====
